---- MODULE Spec2Model ----
(***************************************************************************)
(* Model of the backtesting core: the per-bar strategy state machine       *)
(* MultiOrderRSI.next (src/src/strategies.py) and the metrics aggregator   *)
(* compute_sharpe_metrics (src/src/data_utils.py).                         *)
(*                                                                         *)
(* Prices are integer ticks; a timestamp is an integer count of intraday   *)
(* slots, SlotsPerDay of them per calendar day.  A daily return is the     *)
(* exact quotient <<numerator, denominator>>.                              *)
(***************************************************************************)
EXTENDS Integers, Sequences, FiniteSets, TLC

VARIABLES
    p,                 \* self.p : the four RSI thresholds
    open_positions,    \* self.open_positions
    closed_positions,  \* self.closed_positions (the trade ledger)
    bar,               \* the data feed's current bar: self.rsi[0], close[0], datetime(0)
    bars,              \* history: the bars replayed so far, in order
    nbars,             \* number of bars replayed so far
    next_ref,          \* reference the broker gives to the next order
    n_entries,         \* history: entry events so far
    n_closes,          \* history: close events so far
    raised,            \* the exception the last call of next() raised, if any
    df,                \* the ledger DataFrame handed to the metrics stage
    metrics,           \* outcome of the last compute_sharpe_metrics call
    fetch_pc,          \* fetch_instrument_candles: "loop", "after_loop", "done"
    all_candles,       \* fetch_instrument_candles: all_candles
    next_from,         \* fetch_instrument_candles: next_from
    iteration,         \* fetch_instrument_candles: iteration
    page_last,         \* history: last_ts of each response that had candles
    request_failed,    \* history: a client.request raised
    fetch_result       \* what fetch_instrument_candles returned

vars == <<p, open_positions, closed_positions, bar, bars, nbars, next_ref,
          n_entries, n_closes, raised, df, metrics,
          fetch_pc, all_candles, next_from, iteration, page_last,
          request_failed, fetch_result>>

strategy_vars == <<p, open_positions, closed_positions, bar, bars, nbars,
                   next_ref, n_entries, n_closes, raised>>

fetch_vars == <<fetch_pc, all_candles, next_from, iteration, page_last,
                request_failed, fetch_result>>

---------------------------------------------------------------------------
\* Bounds of the model.

\* Bars replayed in one run.
MaxBars == 3

\* Representative indicator values: below, at, between, at and above the
\* thresholds 30 and 70.
RSIValues == {20, 30, 50, 70, 80}

\* Closing prices, in ticks.
Prices == {1, 3}

\* Intraday slots per calendar day, and the slots a bar may lie after the
\* previous one (0: a timestamp tie; 3: at least one calendar day is skipped
\* when two consecutive bars are that far apart twice in a row).
SlotsPerDay == 2
Steps == {0, 1, 3}

---------------------------------------------------------------------------
\* Configuration.

buy_rsi == 30
sell_rsi == 70
exit_buy_rsi == 70
exit_sell_rsi == 30

\* params of MultiOrderRSI: the defaults.
params ==
    [buy_rsi |-> buy_rsi, sell_rsi |-> sell_rsi,
     exit_buy_rsi |-> exit_buy_rsi, exit_sell_rsi |-> exit_sell_rsi]

\* A configuration with overlapping thresholds: at 50 a long and a short are
\* both opened and stay open, at 70 the long opened is closed on the same
\* bar, at 30 the short opened is closed on the same bar.
OverlapParams ==
    [buy_rsi |-> 80, sell_rsi |-> 20, exit_buy_rsi |-> 50, exit_sell_rsi |-> 50]

Configs == {params, OverlapParams}

---------------------------------------------------------------------------
\* Helpers on sequences.

Range(s) == {s[i] : i \in 1..Len(s)}

\* list.remove(x): drops the first element equal to x.  The dicts differ at
\* least in order_ref, the reference of the entry order.
RECURSIVE FirstIndex(_, _, _)
FirstIndex(s, x, i) ==
    IF i > Len(s) THEN 0
    ELSE IF s[i] = x THEN i
    ELSE FirstIndex(s, x, i + 1)

ListRemoveNothing(s, x) == s
ListRemoveLast(s, x) == SubSeq(s, 1, Len(s) - 1)
ListRemove(s, x) ==
    LET k == FirstIndex(s, x, 1)
    IN  IF k = 0 THEN s
        ELSE SubSeq(s, 1, k - 1) \o SubSeq(s, k + 1, Len(s))

---------------------------------------------------------------------------
\* MultiOrderRSI.next, step by step.

\* The dict appended on an entry.
NewPositionOrderAsSignal(type, rsi, price, now, order) ==
    [type |-> type, entry_rsi |-> order, entry_price |-> price,
     entry_time |-> now, order_ref |-> order]
NewPosition(type, rsi, price, now, order) ==
    [type |-> type, entry_rsi |-> rsi, entry_price |-> price,
     entry_time |-> now, order_ref |-> order]

\* 1. if rsi < self.p.buy_rsi
LongEntrySignalStrict(rsi) == rsi <= p.buy_rsi
LongEntrySignal(rsi) == rsi < p.buy_rsi

\* 2. if rsi > self.p.sell_rsi (a plain `if`, evaluated whatever step 1 did)
ShortEntrySignalElif(rsi) == ~LongEntrySignal(rsi) /\ rsi > p.sell_rsi
ShortEntrySignal(rsi) == rsi > p.sell_rsi

\* open_positions after steps 1 and 2, with the order references used.
AfterLongEntry(ops, ref, rsi, price, now) ==
    IF LongEntrySignal(rsi)
    THEN [ops |-> Append(ops, NewPosition("long", rsi, price, now, ref)),
          ref |-> ref + 1]
    ELSE [ops |-> ops, ref |-> ref]

AfterShortEntry(st, rsi, price, now) ==
    IF ShortEntrySignal(rsi)
    THEN [ops |-> Append(st.ops, NewPosition("short", rsi, price, now, st.ref)),
          ref |-> st.ref + 1]
    ELSE st

AfterEntries(ops, ref, rsi, price, now) ==
    AfterShortEntry(AfterLongEntry(ops, ref, rsi, price, now), rsi, price, now)

\* 3. exit conditions of one position
ExitSignalLongOnly(pos, rsi) ==
    pos.type = "long" /\ rsi > p.exit_buy_rsi
ExitSignalInverted(pos, rsi) ==
    \/ pos.type = "long" /\ rsi < p.exit_buy_rsi
    \/ pos.type = "short" /\ rsi > p.exit_sell_rsi
ExitSignalInclusive(pos, rsi) ==
    \/ pos.type = "long" /\ rsi >= p.exit_buy_rsi
    \/ pos.type = "short" /\ rsi <= p.exit_sell_rsi
ExitSignal(pos, rsi) ==
    \/ pos.type = "long" /\ rsi > p.exit_buy_rsi
    \/ pos.type = "short" /\ rsi < p.exit_sell_rsi

\* The list the exit scan iterates: self.open_positions as it is after steps
\* 1 and 2 (before: the list at the start of the call).
ScanListBeforeEntries(before, after) == before
ScanList(before, after) == after

\* for pos in self.open_positions: positions_to_close.append((pos, order))
RECURSIVE ExitScan(_, _, _, _, _)
ExitScan(ops, i, ref, rsi, acc) ==
    IF i > Len(ops) THEN [to_close |-> acc, ref |-> ref]
    ELSE IF ExitSignal(ops[i], rsi)
         THEN ExitScan(ops, i + 1, ref + 1, rsi,
                       Append(acc, [pos |-> ops[i], order |-> ref]))
         ELSE ExitScan(ops, i + 1, ref, rsi, acc)

\* pos["pnl"]
PnlSwapped(pos, exit_price) ==
    IF pos.type = "long"
    THEN pos.entry_price - exit_price
    ELSE exit_price - pos.entry_price
Pnl(pos, exit_price) ==
    IF pos.type = "long"
    THEN exit_price - pos.entry_price
    ELSE pos.entry_price - exit_price

\* The dict after the exit fields are written into it.
ClosedPositionRestamped(pos, order, rsi, price, now) ==
    [type |-> pos.type, entry_rsi |-> rsi,
     entry_price |-> pos.entry_price, entry_time |-> now,
     order_ref |-> pos.order_ref,
     exit_order |-> order, exit_rsi |-> rsi, exit_time |-> now,
     exit_price |-> price, pnl |-> Pnl(pos, price)]
ClosedPosition(pos, order, rsi, price, now) ==
    [type |-> pos.type, entry_rsi |-> pos.entry_rsi,
     entry_price |-> pos.entry_price, entry_time |-> pos.entry_time,
     order_ref |-> pos.order_ref,
     exit_order |-> order, exit_rsi |-> rsi, exit_time |-> now,
     exit_price |-> price, pnl |-> Pnl(pos, price)]

\* self.closed_positions.append(pos)
LedgerPrepend(ledger, rec) == <<rec>> \o ledger
LedgerAppend(ledger, rec) == Append(ledger, rec)

\* for pos, order in positions_to_close: ... append, remove
RECURSIVE CloseAll(_, _, _, _, _, _, _)
CloseAll(to_close, i, ops, ledger, rsi, price, now) ==
    IF i > Len(to_close) THEN [ops |-> ops, ledger |-> ledger]
    ELSE CloseAll(to_close, i + 1,
                  ListRemove(ops, to_close[i].pos),
                  LedgerAppend(ledger,
                      ClosedPosition(to_close[i].pos, to_close[i].order,
                                     rsi, price, now)),
                  rsi, price, now)

\* What one call of next() on the bar (rsi, price, now) makes of the open
\* list, the ledger and the broker's order counter.
NextResult(ops, ledger, ref, rsi, price, now) ==
    LET entered == AfterEntries(ops, ref, rsi, price, now)
        scan    == ExitScan(ScanList(ops, entered.ops), 1,
                            entered.ref, rsi, <<>>)
        done    == CloseAll(scan.to_close, 1, entered.ops, ledger,
                            rsi, price, now)
    IN  [ops |-> done.ops, ledger |-> done.ledger, ref |-> scan.ref,
         entries |-> Len(entered.ops) - Len(ops),
         closes |-> Len(scan.to_close)]

\* One call of next() on the bar (rsi, price, now).
MultiOrderRSI_next(rsi, price, now) ==
    LET res == NextResult(open_positions, closed_positions, next_ref,
                          rsi, price, now)
    IN  /\ bar' = [rsi |-> rsi, price |-> price, time |-> now]
        /\ bars' = Append(bars, [rsi |-> rsi, price |-> price, time |-> now])
        /\ open_positions' = res.ops
        /\ closed_positions' = res.ledger
        /\ next_ref' = res.ref
        /\ n_entries' = n_entries + res.entries
        /\ n_closes' = n_closes + res.closes
        /\ nbars' = nbars + 1
        /\ raised' = "none"
        /\ UNCHANGED p

---------------------------------------------------------------------------
\* compute_sharpe_metrics, step by step.

\* An exact quotient n/d with d > 0; NaN is the missing value of a reindex.
Quot(n, d) == [n |-> n, d |-> d]
NaN == [n |-> 0, d |-> 0]
Zero == Quot(0, 1)
IsNaN(x) == x.d = 0
QEq(x, y) == ~IsNaN(x) /\ ~IsNaN(y) /\ x.n * y.d = y.n * x.d
QAdd(x, y) == Quot(x.n * y.d + y.n * x.d, x.d * y.d)

\* pd.to_datetime(t).dt.date : the calendar date of a timestamp.
ExitDate(t) == t \div SlotsPerDay

\* A calendar date as the Timestamp date_range and reindex compare it as:
\* midnight of that day.
ToTimestamp(d) == d * SlotsPerDay

\* df["exit_date"] = ... : the column is written into the caller's frame.
WithExitDate(frame) ==
    [columns |-> frame.columns \cup {"exit_date"},
     rows |-> [i \in 1..Len(frame.rows) |->
                  [exit_date |-> ExitDate(frame.rows[i].exit_time)]
                  @@ frame.rows[i]],
     built |-> frame.built]

\* df.groupby("exit_date")["pnl"].sum()
RECURSIVE SumPnl(_, _, _)
SumPnl(rows, d, i) ==
    IF i > Len(rows) THEN 0
    ELSE (IF rows[i].exit_date = d THEN rows[i].pnl ELSE 0)
         + SumPnl(rows, d, i + 1)

DailyPnl(rows) ==
    [d \in {rows[i].exit_date : i \in 1..Len(rows)} |-> SumPnl(rows, d, 1)]

\* daily_pnl / start_cash
DailyReturns(rows, start_cash) ==
    LET daily_pnl == DailyPnl(rows)
    IN  [d \in DOMAIN daily_pnl |-> Quot(daily_pnl[d], start_cash)]

SetMin(S) == CHOOSE x \in S : \A y \in S : x <= y
SetMax(S) == CHOOSE x \in S : \A y \in S : x >= y

\* pd.date_range(start=start_date, end=end_date, freq="D") : one Timestamp
\* per calendar day, both ends included.
DateRangeExclusive(start_date, end_date) ==
    [k \in 1..(end_date - start_date) |-> ToTimestamp(start_date + k - 1)]
DateRange(start_date, end_date) ==
    [k \in 1..(end_date - start_date + 1) |-> ToTimestamp(start_date + k - 1)]

\* Whether the index label d (a date) is the label ts of the new index: the
\* date index is converted to Timestamps before the lookup.
LabelMatchNever(d, ts) == FALSE
LabelMatch(d, ts) == ToTimestamp(d) = ts

\* daily_returns.reindex(full_date_range)
Reindex(daily_returns, full_date_range) ==
    [k \in 1..Len(full_date_range) |->
        [date |-> full_date_range[k],
         pnl  |-> IF \E d \in DOMAIN daily_returns :
                         LabelMatch(d, full_date_range[k])
                  THEN daily_returns[CHOOSE d \in DOMAIN daily_returns :
                                         LabelMatch(d, full_date_range[k])]
                  ELSE NaN]]

\* .fillna(0.0)
FillNa(series) ==
    [k \in 1..Len(series) |->
        [date |-> series[k].date,
         pnl  |-> IF IsNaN(series[k].pnl) THEN Zero ELSE series[k].pnl]]

\* Series.std() (N-1 denominator): undefined for fewer than two entries,
\* zero when all entries are equal.
Std(series) ==
    IF Len(series) < 2 THEN "nan"
    ELSE IF \A i, j \in 1..Len(series) : QEq(series[i].pnl, series[j].pnl)
         THEN "zero"
         ELSE "positive"

\* Series.mean()
RECURSIVE QSum(_, _)
QSum(series, i) ==
    IF i > Len(series) THEN Zero
    ELSE QAdd(series[i].pnl, QSum(series, i + 1))

Mean(series) ==
    LET s == QSum(series, 1) IN Quot(s.n, s.d * Len(series))

\* (mean - daily_rf) / daily_vol in floating point: a division by 0.0 or by
\* NaN raises nothing and yields an infinity or NaN.
TradingDays == 252
DailySharpe(series, risk_free_rate) ==
    LET m      == Mean(series)
        excess == m.n * risk_free_rate.d * TradingDays - risk_free_rate.n * m.d
        vol    == Std(series)
    IN  IF vol = "nan" THEN "nan"
        ELSE IF vol = "zero"
             THEN (IF excess > 0 THEN "inf"
                   ELSE IF excess < 0 THEN "-inf" ELSE "nan")
             ELSE "finite"

\* The whole call on a frame: what it returns or raises.
SharpeMetrics(frame, start_cash, risk_free_rate) ==
    IF "exit_time" \notin frame.columns
    THEN [outcome |-> "KeyError"]
    ELSE IF Len(frame.rows) = 0
    THEN [outcome |-> "ValueError"]
    ELSE
      LET rows          == WithExitDate(frame).rows
          daily_returns == DailyReturns(rows, start_cash)
          start_date    == SetMin(DOMAIN daily_returns)
          end_date      == SetMax(DOMAIN daily_returns)
          complete      == FillNa(Reindex(daily_returns,
                                          DateRange(start_date, end_date)))
      IN  [outcome |-> "returned",
           start_cash |-> start_cash,
           daily_returns_complete |-> complete,
           annual_vol |-> Std(complete),
           annual_sharpe |-> DailySharpe(complete, risk_free_rate),
           mean_daily_return |-> Mean(complete)]

---------------------------------------------------------------------------
\* fetch_instrument_candles.  Timestamps are integers, one unit being the
\* millisecond added to last_ts; start_dt is 0.

\* end_dt, the requests the model follows, and the candles of a response.
EndDt == 4
MaxRequests == 3
MaxPage == 2

\* A candle of a response: its time and its "complete" flag.
Candles == [time : 1..(EndDt - 1), complete : BOOLEAN]

\* data.get("candles", []) when the response has candles.
Pages == UNION {[1..n -> Candles] : n \in 1..MaxPage}

\* parsed = [... for candle in candles if candle.get("complete", True)]
RECURSIVE Parsed(_, _)
Parsed(candles, i) ==
    IF i > Len(candles) THEN <<>>
    ELSE (IF candles[i].complete THEN <<candles[i].time>> ELSE <<>>)
         \o Parsed(candles, i + 1)

\* The stall test: last_ts against the datetime of all_candles[-2].
StallDetected(candles_so_far, last_ts) ==
    /\ Len(candles_so_far) > 1
    /\ last_ts <= candles_so_far[Len(candles_so_far) - 1]

\* The body of the while loop on a response with candles.
ProcessPage(candles) ==
    LET parsed == Parsed(candles, 1)
    IN  IF parsed = <<>>
        THEN \* parsed[-1] raises IndexError, caught by the outer except
             /\ fetch_pc' = "done"
             /\ fetch_result' = [kind |-> "None"]
             /\ UNCHANGED <<all_candles, next_from, page_last>>
        ELSE LET extended == all_candles \o parsed
                 last_ts  == parsed[Len(parsed)]
             IN  /\ all_candles' = extended
                 /\ page_last' = Append(page_last, last_ts)
                 /\ fetch_result' = fetch_result
                 /\ IF StallDetected(extended, last_ts)
                    THEN fetch_pc' = "after_loop" /\ next_from' = next_from
                    ELSE /\ next_from' = last_ts + 1
                         /\ fetch_pc' = IF last_ts + 1 >= EndDt
                                        THEN "after_loop" ELSE "loop"

\* One iteration of `while next_from < end_dt`: the request raises, returns
\* no candles, or returns a page.
FetchRequest ==
    /\ fetch_pc = "loop"
    /\ next_from < EndDt
    /\ iteration < MaxRequests
    /\ iteration' = iteration + 1
    /\ \/ /\ request_failed' = TRUE
          /\ fetch_pc' = "after_loop"
          /\ UNCHANGED <<all_candles, next_from, page_last, fetch_result>>
       \/ /\ fetch_pc' = "after_loop"
          /\ UNCHANGED <<all_candles, next_from, page_last, fetch_result,
                         request_failed>>
       \/ /\ \E candles \in Pages : ProcessPage(candles)
          /\ UNCHANGED request_failed
    /\ UNCHANGED <<strategy_vars, df, metrics>>

\* After the loop: an empty frame is returned as it is; otherwise the frame
\* is indexed and written to save_path, and returned, or None if that raised.
FetchFinish ==
    /\ fetch_pc = "after_loop"
    /\ fetch_pc' = "done"
    /\ IF all_candles = <<>>
       THEN fetch_result' = [kind |-> "DataFrame", rows |-> <<>>]
       ELSE \E saved \in BOOLEAN :
                fetch_result' = IF saved
                                THEN [kind |-> "DataFrame", rows |-> all_candles]
                                ELSE [kind |-> "None"]
    /\ UNCHANGED <<all_candles, next_from, iteration, page_last,
                   request_failed, strategy_vars, df, metrics>>

---------------------------------------------------------------------------
NoFrame == [columns |-> {}, rows |-> <<>>, built |-> FALSE]
NoMetrics == [outcome |-> "none"]

\* Starting capital and annual risk-free rate (the default 0.0004, and 0).
CashValues == {2, 5}
RiskFreeRates == {Quot(4, 10000), Quot(0, 1)}

LedgerColumns ==
    {"type", "entry_rsi", "entry_price", "entry_time", "order_ref",
     "exit_order", "exit_rsi", "exit_time", "exit_price", "pnl"}

Init ==
    /\ p \in Configs
    /\ open_positions = <<>>
    /\ closed_positions = <<>>
    /\ bar = [rsi |-> 50, price |-> 1, time |-> 0]
    /\ bars = <<>>
    /\ nbars = 0
    /\ next_ref = 1
    /\ n_entries = 0
    /\ n_closes = 0
    /\ raised = "none"
    /\ df = NoFrame
    /\ metrics = NoMetrics
    /\ fetch_pc = "loop"
    /\ all_candles = <<>>
    /\ next_from = 0
    /\ iteration = 0
    /\ page_last = <<>>
    /\ request_failed = FALSE
    /\ fetch_result = [kind |-> "pending"]

\* The replay: the framework calls next() once per bar, in timestamp order,
\* until the bars run out or the replay is stopped.
Replay(steps) ==
    /\ nbars < MaxBars
    /\ ~df.built
    /\ \E rsi \in RSIValues, price \in Prices, step \in steps :
           MultiOrderRSI_next(rsi, price, bar.time + step)
    /\ UNCHANGED <<df, metrics, fetch_vars>>

\* Bars with non-decreasing timestamps (ties included).
ReplayBar == Replay(Steps)

\* Bars with strictly increasing timestamps.
ReplayLaterBar == Replay(Steps \ {0})

\* A bar whose timestamp is lower than the previous bar's: next() reads the
\* bar and runs as on any other.
ReplayEarlierBar ==
    /\ nbars >= 1
    /\ nbars < MaxBars
    /\ bar.time >= 1
    /\ ~df.built
    /\ \E rsi \in RSIValues, price \in Prices :
           MultiOrderRSI_next(rsi, price, bar.time - 1)
    /\ UNCHANGED <<df, metrics, fetch_vars>>

\* The ledger is handed to the metrics stage as a table, one row per closed
\* trade; the replay is over.  A table of no rows has the ledger's columns
\* or none.
LedgerToFrame ==
    /\ ~df.built
    /\ \E cols \in IF closed_positions = <<>>
                   THEN {{}, LedgerColumns} ELSE {LedgerColumns} :
           df' = [columns |-> cols, rows |-> closed_positions, built |-> TRUE]
    /\ UNCHANGED <<strategy_vars, metrics, fetch_vars>>

\* compute_sharpe_metrics(df, start_cash, risk_free_rate)
ComputeSharpeMetrics ==
    /\ df.built
    /\ \E start_cash \in CashValues, risk_free_rate \in RiskFreeRates :
           metrics' = SharpeMetrics(df, start_cash, risk_free_rate)
    /\ df' = IF "exit_time" \in df.columns THEN WithExitDate(df) ELSE df
    /\ UNCHANGED <<strategy_vars, fetch_vars>>

\* The strategy engine alone.
Next == ReplayBar

Spec == Init /\ [][Next]_vars

\* The strategy engine fed by a source that may deliver a bar out of order.
NextMalformed == ReplayBar \/ ReplayEarlierBar

SpecMalformed == Init /\ [][NextMalformed]_vars

\* The candle download.
NextFetch == FetchRequest \/ FetchFinish

SpecFetch == Init /\ [][NextFetch]_vars

\* The replay followed by the metrics stage.
NextMetrics == ReplayLaterBar \/ LedgerToFrame \/ ComputeSharpeMetrics

SpecMetrics == Init /\ [][NextMetrics]_vars

---------------------------------------------------------------------------
\* Properties of the strategy engine.

\* The step just taken was a call of next().
BarStep == nbars' = nbars + 1

\* Order references of the positions of one side opened by the step: they
\* are the ones the broker had not yet given out before it.
OpenedRefs(type) ==
    {open_positions'[i].order_ref : i \in
        {j \in 1..Len(open_positions') :
            /\ open_positions'[j].type = type
            /\ open_positions'[j].order_ref >= next_ref}}
    \cup
    {closed_positions'[i].order_ref : i \in
        {j \in 1..Len(closed_positions') :
            /\ closed_positions'[j].type = type
            /\ closed_positions'[j].order_ref >= next_ref}}

\* Every position with reference r, open or closed after the step, carries
\* the bar of the step as its entry.
EnteredOnThisBar(r) ==
    /\ \A i \in 1..Len(open_positions') :
          open_positions'[i].order_ref = r =>
              /\ open_positions'[i].entry_price = bar'.price
              /\ open_positions'[i].entry_time = bar'.time
              /\ open_positions'[i].entry_rsi = bar'.rsi
    /\ \A i \in 1..Len(closed_positions') :
          closed_positions'[i].order_ref = r =>
              /\ closed_positions'[i].entry_price = bar'.price
              /\ closed_positions'[i].entry_time = bar'.time
              /\ closed_positions'[i].entry_rsi = bar'.rsi

\* C1 (pyramiding law): a call of next() with rsi < buy_rsi opens exactly one
\* new long, whose entry price, time and signal are the bar's close,
\* timestamp and rsi, whatever is already open; a call with rsi >= buy_rsi
\* opens no long.
C1_PyramidingLaw ==
    [][BarStep =>
          IF bar'.rsi < p.buy_rsi
          THEN /\ Cardinality(OpenedRefs("long")) = 1
               /\ \A r \in OpenedRefs("long") : EnteredOnThisBar(r)
          ELSE OpenedRefs("long") = {}]_vars

\* The second bar opened a long on top of a long and a short already open.
C1_Witness ==
    /\ nbars = 2
    /\ Len(open_positions) >= 3
    /\ open_positions[1].type = "long"
    /\ open_positions[2].type = "short"
    /\ open_positions[3].type = "long"
    /\ open_positions[1].order_ref = 1
    /\ open_positions[2].order_ref = 2
    /\ open_positions[3].order_ref = 3
    /\ open_positions[3].entry_time = bar.time
    /\ open_positions[3].entry_price = bar.price
    /\ open_positions[3].entry_rsi = bar.rsi
    /\ bar.rsi < p.buy_rsi

\* C2 (exit-scan completeness): after a call of next() with
\* rsi > exit_buy_rsi no long is open, and after a call with
\* rsi < exit_sell_rsi no short is open.
C2_ExitScanComplete ==
    nbars > 0 =>
        /\ bar.rsi > p.exit_buy_rsi =>
               \A i \in 1..Len(open_positions) : open_positions[i].type # "long"
        /\ bar.rsi < p.exit_sell_rsi =>
               \A i \in 1..Len(open_positions) : open_positions[i].type # "short"

\* Two longs equal in every entry field but the order reference were closed
\* by the last bar, and with them a long which that very bar had opened.
C2_Witness ==
    /\ nbars = 3
    /\ bar.rsi > p.exit_buy_rsi
    /\ \E i, j, k \in 1..Len(closed_positions) :
          /\ i < j
          /\ closed_positions[i].type = "long"
          /\ closed_positions[j].type = "long"
          /\ closed_positions[k].type = "long"
          /\ closed_positions[i].entry_time = closed_positions[j].entry_time
          /\ closed_positions[i].entry_price = closed_positions[j].entry_price
          /\ closed_positions[i].entry_rsi = closed_positions[j].entry_rsi
          /\ closed_positions[j].order_ref < closed_positions[k].order_ref
          /\ closed_positions[k].entry_time = bar.time
          /\ closed_positions[k].entry_rsi = bar.rsi
          /\ closed_positions[i].exit_order > closed_positions[k].order_ref
          /\ closed_positions[j].exit_order > closed_positions[k].order_ref
    /\ \A i \in 1..Len(open_positions) : open_positions[i].type = "short"
    /\ Len(open_positions) >= 1

\* The position of one side opened by the step is, after it, a record of the
\* ledger closed on the bar it was opened on, with zero pnl, and is not open.
ClosedOnEntryBar(type) ==
    /\ Cardinality(OpenedRefs(type)) = 1
    /\ \A r \in OpenedRefs(type) :
          /\ \A i \in 1..Len(open_positions') :
                open_positions'[i].order_ref # r
          /\ \E i \in (Len(closed_positions) + 1)..Len(closed_positions') :
                /\ closed_positions'[i].order_ref = r
                /\ closed_positions'[i].type = type
                /\ closed_positions'[i].entry_time = bar'.time
                /\ closed_positions'[i].exit_time = bar'.time
                /\ closed_positions'[i].pnl = 0

\* C3 (same-bar open and close): with buy_rsi > exit_buy_rsi, the long opened
\* by a call of next() whose rsi is below buy_rsi and above exit_buy_rsi is
\* closed by that same call (entry_time = exit_time = the bar's timestamp,
\* pnl = 0, not open afterwards); the same for the short opened when
\* sell_rsi < rsi < exit_sell_rsi.
C3_SameBarOpenClose ==
    [][BarStep =>
          /\ (bar'.rsi < p.buy_rsi /\ bar'.rsi > p.exit_buy_rsi)
                 => ClosedOnEntryBar("long")
          /\ (bar'.rsi > p.sell_rsi /\ bar'.rsi < p.exit_sell_rsi)
                 => ClosedOnEntryBar("short")]_vars

\* The ledger holds a long and a short each closed by the call that opened it.
C3_Witness ==
    /\ p.buy_rsi > p.exit_buy_rsi
    /\ p.sell_rsi < p.exit_sell_rsi
    /\ \E i, j \in 1..Len(closed_positions) :
          /\ closed_positions[i].type = "long"
          /\ closed_positions[i].exit_order = closed_positions[i].order_ref + 2
          /\ closed_positions[i].entry_time = closed_positions[i].exit_time
          /\ closed_positions[i].pnl = 0
          /\ closed_positions[j].type = "short"
          /\ closed_positions[j].exit_order = closed_positions[j].order_ref + 1
          /\ closed_positions[j].entry_time = closed_positions[j].exit_time
          /\ closed_positions[j].pnl = 0

\* Some replayed bar has this timestamp, close and rsi.
IsBar(k, time, price, rsi) ==
    /\ k \in 1..Len(bars)
    /\ bars[k].time = time
    /\ bars[k].price = price
    /\ bars[k].rsi = rsi

\* C4 (closing pnl sign law): every ledger record has pnl = exit_price -
\* entry_price when long and entry_price - exit_price when short, its entry
\* price being the close of the bar that opened it and its exit price the
\* close of the bar that closed it.
C4_PnlSignLaw ==
    \A i \in 1..Len(closed_positions) :
        LET c == closed_positions[i]
        IN  /\ c.type = "long" => c.pnl = c.exit_price - c.entry_price
            /\ c.type = "short" => c.pnl = c.entry_price - c.exit_price
            /\ \E k, m \in 1..Len(bars) :
                  /\ k <= m
                  /\ IsBar(k, c.entry_time, c.entry_price, c.entry_rsi)
                  /\ IsBar(m, c.exit_time, c.exit_price, c.exit_rsi)

\* The ledger holds a winning and a losing long and a winning and a losing
\* short.
C4_Witness ==
    \E i, j \in 1..Len(closed_positions) :
        /\ closed_positions[i].type = "long"
        /\ closed_positions[i].pnl > 0
        /\ closed_positions[j].type = "short"
        /\ closed_positions[j].pnl > 0
        /\ closed_positions[j].exit_price < closed_positions[j].entry_price
        /\ closed_positions[i].exit_price > closed_positions[i].entry_price

\* C5 (independent entry evaluation): a call of next() with rsi < buy_rsi and
\* rsi > sell_rsi opens one long and one short, the long first; under the
\* default thresholds a call opens at most one position.
C5_IndependentEntries ==
    [][BarStep =>
          /\ (bar'.rsi < p.buy_rsi /\ bar'.rsi > p.sell_rsi) =>
                 /\ OpenedRefs("long") = {next_ref}
                 /\ OpenedRefs("short") = {next_ref + 1}
                 /\ EnteredOnThisBar(next_ref)
                 /\ EnteredOnThisBar(next_ref + 1)
          /\ p = params =>
                 Cardinality(OpenedRefs("long") \cup OpenedRefs("short")) <= 1]_vars

\* A long and a short opened by one call are both open, the long first.
C5_Witness ==
    /\ Len(open_positions) >= 2
    /\ \E i \in 1..(Len(open_positions) - 1) :
          /\ open_positions[i].type = "long"
          /\ open_positions[i + 1].type = "short"
          /\ open_positions[i + 1].order_ref = open_positions[i].order_ref + 1
          /\ open_positions[i].entry_time = bar.time
          /\ open_positions[i + 1].entry_time = bar.time
    /\ bar.rsi < p.buy_rsi
    /\ bar.rsi > p.sell_rsi

\* C6 (append-only ledger in close order): a step keeps the ledger it found
\* as a prefix of the ledger it leaves; the records it adds were all closed
\* on the bar of the step and stand in the order they were opened, which is
\* the order the exit scan met them.
C6_LedgerAppendOnly ==
    [][/\ Len(closed_positions') >= Len(closed_positions)
       /\ SubSeq(closed_positions', 1, Len(closed_positions)) = closed_positions
       /\ \A i \in (Len(closed_positions) + 1)..Len(closed_positions') :
             /\ BarStep
             /\ closed_positions'[i].exit_time = bar'.time
             /\ closed_positions'[i].exit_rsi = bar'.rsi
             /\ closed_positions'[i].exit_price = bar'.price
             /\ \A j \in (Len(closed_positions) + 1)..(i - 1) :
                   /\ closed_positions'[j].order_ref
                          < closed_positions'[i].order_ref
                   /\ closed_positions'[j].exit_order
                          < closed_positions'[i].exit_order]_vars

\* The ledger holds a record closed on an earlier bar followed by two closed
\* together on a later bar, and the first was opened after the second.
C6_Witness ==
    \E i, j, k \in 1..Len(closed_positions) :
        /\ i < j
        /\ j < k
        /\ closed_positions[i].exit_time < closed_positions[j].exit_time
        /\ closed_positions[j].exit_time = closed_positions[k].exit_time
        /\ closed_positions[j].entry_time < closed_positions[k].entry_time
        /\ closed_positions[i].order_ref > closed_positions[j].order_ref

\* C7 (ledger length = close events): the ledger holds one record per close
\* event, no open position is in the ledger, and no position was closed
\* except by an exit signal of a replayed bar; this in every state, that is
\* wherever the replay stops.
C7_LedgerLength ==
    /\ Len(closed_positions) = n_closes
    /\ \A i \in 1..Len(open_positions), j \in 1..Len(closed_positions) :
          open_positions[i].order_ref # closed_positions[j].order_ref
    /\ \A i, j \in 1..Len(closed_positions) :
          i # j => closed_positions[i].order_ref # closed_positions[j].order_ref
    /\ \A i \in 1..Len(closed_positions) :
          LET c == closed_positions[i]
          IN  \/ c.type = "long" /\ c.exit_rsi > p.exit_buy_rsi
              \/ c.type = "short" /\ c.exit_rsi < p.exit_sell_rsi

\* The replay stopped with a position still open: it had met an exit signal of
\* the other side only, and the ledger holds the positions that were closed.
C7_Witness ==
    /\ nbars = 3
    /\ Len(open_positions) >= 1
    /\ Len(closed_positions) >= 2
    /\ \E i \in 1..Len(open_positions) :
          open_positions[i].entry_time < bar.time

---------------------------------------------------------------------------
\* Properties of the metrics stage.

\* Calendar days on which a ledger trade exited.
LedgerExitDays ==
    {closed_positions[i].exit_time \div SlotsPerDay :
        i \in 1..Len(closed_positions)}

FirstExitDay == CHOOSE d \in LedgerExitDays : \A e \in LedgerExitDays : d <= e
LastExitDay == CHOOSE d \in LedgerExitDays : \A e \in LedgerExitDays : d >= e

\* Sum of the pnl of the ledger trades i.. that exited on calendar day d.
RECURSIVE LedgerPnlOn(_, _)
LedgerPnlOn(d, i) ==
    IF i > Len(closed_positions) THEN 0
    ELSE (IF closed_positions[i].exit_time \div SlotsPerDay = d
          THEN closed_positions[i].pnl ELSE 0)
         + LedgerPnlOn(d, i + 1)

\* The calendar day of an entry of the returned series.
SeriesDay(k) == metrics.daily_returns_complete[k].date \div SlotsPerDay

\* C8 (reindexing law): the returned daily-return series has
\* (last exit day - first exit day) + 1 entries, exactly one per calendar day
\* of that range, each labelled with the day's midnight, and a day on which
\* no trade exited has return exactly 0.0.
C8_ReindexingLaw ==
    metrics.outcome = "returned" =>
        LET series == metrics.daily_returns_complete
        IN  /\ Len(series) = (LastExitDay - FirstExitDay) + 1
            /\ \A d \in FirstExitDay..LastExitDay :
                  Cardinality({k \in 1..Len(series) :
                                  series[k].date = d * SlotsPerDay}) = 1
            /\ \A k \in 1..Len(series) :
                  SeriesDay(k) \notin LedgerExitDays
                      => series[k].pnl = [n |-> 0, d |-> 1]

\* A returned series of at least three days with a day on which no trade
\* exited.
C8_Witness ==
    /\ metrics.outcome = "returned"
    /\ Len(metrics.daily_returns_complete) >= 3
    /\ \E k \in 1..Len(metrics.daily_returns_complete) :
          /\ SeriesDay(k) \notin LedgerExitDays
          /\ metrics.daily_returns_complete[k].pnl = [n |-> 0, d |-> 1]

\* C9 (daily-return values): in the returned series the entry of every
\* calendar day on which a trade exited is the sum of the pnl of the trades
\* that exited on that day, at whatever time, divided by start_cash.
C9_DailyReturnValues ==
    metrics.outcome = "returned" =>
        LET series == metrics.daily_returns_complete
        IN  /\ \A d \in LedgerExitDays :
                  \E k \in 1..Len(series) : SeriesDay(k) = d
            /\ \A k \in 1..Len(series) :
                  SeriesDay(k) \in LedgerExitDays =>
                      /\ series[k].pnl.d > 0
                      /\ series[k].pnl.n * metrics.start_cash
                             = LedgerPnlOn(SeriesDay(k), 1) * series[k].pnl.d

\* A returned series with a day whose return is not zero and sums two trades
\* that exited at different times of that day.
C9_Witness ==
    /\ metrics.outcome = "returned"
    /\ \E k \in 1..Len(metrics.daily_returns_complete) :
          /\ metrics.daily_returns_complete[k].pnl.n # 0
          /\ \E i, j \in 1..Len(closed_positions) :
                /\ closed_positions[i].exit_time # closed_positions[j].exit_time
                /\ closed_positions[i].exit_time \div SlotsPerDay = SeriesDay(k)
                /\ closed_positions[j].exit_time \div SlotsPerDay = SeriesDay(k)
                /\ closed_positions[i].pnl # 0
                /\ closed_positions[j].pnl # 0
                /\ metrics.daily_returns_complete[k].pnl.n
                       = closed_positions[i].pnl + closed_positions[j].pnl

\* The returned series has no defined or no positive variance.
DegenerateSeries ==
    LET series == metrics.daily_returns_complete
    IN  \/ Len(series) < 2
        \/ \A i, j \in 1..Len(series) :
              series[i].pnl.n * series[j].pnl.d = series[j].pnl.n * series[i].pnl.d

\* C10 (degenerate series is signalled): compute_sharpe_metrics does not
\* return a Sharpe value for a series of zero or undefined variance.
C10_DegenerateSignalled ==
    metrics.outcome = "returned" => ~DegenerateSeries

\* C11 (empty ledger is a typed failure): a call of compute_sharpe_metrics on
\* a ledger of no closed trade fails with EmptyLedgerError.
C11_EmptyLedgerError ==
    (df.built /\ Len(df.rows) = 0 /\ metrics.outcome # "none")
        => metrics.outcome = "EmptyLedgerError"

\* C12 (malformed bars fail fast): a call of next() on a bar whose timestamp
\* is lower than the previous bar's fails with DataError and leaves the open
\* set and the ledger as they were: no position carries that bar as its entry
\* or its exit.
C12_MalformedBarFails ==
    (nbars >= 2 /\ bars[nbars].time < bars[nbars - 1].time) =>
        /\ raised = "DataError"
        /\ \A i \in 1..Len(open_positions) :
              open_positions[i].entry_time # bars[nbars].time
        /\ \A i \in 1..Len(closed_positions) :
              /\ closed_positions[i].entry_time # bars[nbars].time
              /\ closed_positions[i].exit_time # bars[nbars].time

\* The bars replayed so far have strictly increasing timestamps.
StrictlyIncreasingBars ==
    \A k \in 1..(Len(bars) - 1) : bars[k].time < bars[k + 1].time

\* C13 (no same-bar close under the defaults): with the default thresholds
\* and strictly increasing bar timestamps every ledger record has its
\* exit_time strictly later than its entry_time.
C13_DefaultsNoSameBarClose ==
    (p = [buy_rsi |-> 30, sell_rsi |-> 70,
          exit_buy_rsi |-> 70, exit_sell_rsi |-> 30]
     /\ StrictlyIncreasingBars) =>
        \A i \in 1..Len(closed_positions) :
            closed_positions[i].exit_time > closed_positions[i].entry_time

\* Under the defaults, on bars of increasing timestamps, a long and a short
\* were each closed by a bar later than the one that opened it.
C13_Witness ==
    /\ p.buy_rsi = 30
    /\ p.exit_buy_rsi = 70
    /\ StrictlyIncreasingBars
    /\ nbars = 3
    /\ \E i, j \in 1..Len(closed_positions) :
          /\ closed_positions[i].type = "short"
          /\ closed_positions[j].type = "long"
          /\ closed_positions[i].exit_time > closed_positions[i].entry_time
          /\ closed_positions[j].exit_time > closed_positions[j].entry_time

\* C14 (the ledger is read-only for the metrics stage): the frame handed to
\* compute_sharpe_metrics keeps the records and the columns it was built
\* with, whatever calls were made on it.
C14_LedgerReadOnly ==
    df.built =>
        /\ df.rows = closed_positions
        /\ df.columns \subseteq
               {"type", "entry_rsi", "entry_price", "entry_time", "order_ref",
                "exit_order", "exit_rsi", "exit_time", "exit_price", "pnl"}

\* The side and entry fields of a position, open or closed.
EntryFields(x) ==
    [type |-> x.type, entry_rsi |-> x.entry_rsi, entry_price |-> x.entry_price,
     entry_time |-> x.entry_time, order_ref |-> x.order_ref]

\* C15 (position lifecycle): a step changes no record of the ledger; a
\* position open after it was open before it with the same fields, or was
\* opened by it; a record it adds to the ledger is a position that was open
\* or was opened by it, with side and entry fields unchanged and exit fields
\* taken from the bar of the step; and no position already in the ledger is
\* open again or recorded again.
C15_PositionLifecycle ==
    [][/\ \A i \in 1..Len(closed_positions) :
             /\ i <= Len(closed_positions')
             /\ closed_positions'[i] = closed_positions[i]
       /\ \A i \in 1..Len(open_positions') :
             \/ \E j \in 1..Len(open_positions) :
                   open_positions[j] = open_positions'[i]
             \/ /\ open_positions'[i].order_ref >= next_ref
                /\ BarStep
                /\ open_positions'[i].entry_time = bar'.time
       /\ \A i \in (Len(closed_positions) + 1)..Len(closed_positions') :
             /\ \/ \E j \in 1..Len(open_positions) :
                      open_positions[j] = EntryFields(closed_positions'[i])
                \/ /\ closed_positions'[i].order_ref >= next_ref
                   /\ closed_positions'[i].entry_time = bar'.time
                   /\ closed_positions'[i].entry_price = bar'.price
                   /\ closed_positions'[i].entry_rsi = bar'.rsi
             /\ closed_positions'[i].exit_time = bar'.time
             /\ closed_positions'[i].exit_price = bar'.price
             /\ closed_positions'[i].exit_rsi = bar'.rsi
       /\ \A i \in 1..Len(closed_positions) :
             /\ \A j \in 1..Len(open_positions') :
                   open_positions'[j].order_ref # closed_positions[i].order_ref
             /\ \A j \in (Len(closed_positions) + 1)..Len(closed_positions') :
                   closed_positions'[j].order_ref
                       # closed_positions[i].order_ref]_vars

\* A long closed by the second bar is in the ledger with that bar's exit
\* values after a third bar, at another time and price, that again exceeded
\* the long exit threshold.
C15_Witness ==
    /\ nbars = 3
    /\ bar.rsi > p.exit_buy_rsi
    /\ \E i \in 1..Len(closed_positions) :
          /\ closed_positions[i].type = "long"
          /\ closed_positions[i].exit_time = bars[2].time
          /\ closed_positions[i].exit_price = bars[2].price
          /\ closed_positions[i].entry_time = bars[1].time
          /\ bars[1].time < bars[2].time
          /\ bars[2].time < bars[3].time
          /\ bars[2].price # bars[3].price

\* A second replay of the bars replayed so far, from the initial state, by a
\* broker whose order counter stands at ref: its state after bar k - 1 is
\* (ops, ledger, ref).
RECURSIVE ReplayAgain(_, _, _, _)
ReplayAgain(k, ops, ledger, ref) ==
    IF k > Len(bars) THEN [ops |-> ops, ledger |-> ledger]
    ELSE LET res == NextResult(ops, ledger, ref,
                               bars[k].rsi, bars[k].price, bars[k].time)
         IN  ReplayAgain(k + 1, res.ops, res.ledger, res.ref)

\* The fields of a trade record (the broker's order objects left out).
TradeFields(c) ==
    [type |-> c.type, entry_rsi |-> c.entry_rsi, entry_price |-> c.entry_price,
     entry_time |-> c.entry_time, exit_rsi |-> c.exit_rsi,
     exit_time |-> c.exit_time, exit_price |-> c.exit_price, pnl |-> c.pnl]

EntryBars(type) ==
    {k \in 1..Len(bars) :
        IF type = "long" THEN bars[k].rsi < p.buy_rsi
        ELSE bars[k].rsi > p.sell_rsi}

\* Positions of one side, open or in the ledger.
HeldCount(type) ==
    Cardinality({i \in 1..Len(open_positions) : open_positions[i].type = type})
    + Cardinality({i \in 1..Len(closed_positions) :
                      closed_positions[i].type = type})

\* Order references of the open positions and of the ledger records.
OpenRefs == {open_positions[i].order_ref : i \in 1..Len(open_positions)}
LedgerRefs == {closed_positions[i].order_ref : i \in 1..Len(closed_positions)}

\* C19 (conservation and disjointness): every position ever opened is either
\* open or in the ledger, never both and never neither: the entry events so
\* far are as many as the open positions plus the ledger records, side by
\* side, no position is held twice, and a step closes exactly the positions
\* whose exit condition its bar satisfies, leaving every other position open.
C19_Conservation ==
    [][/\ n_entries' = Len(open_positions') + Len(closed_positions')
       /\ Cardinality(EntryBars("long"))' = HeldCount("long")'
       /\ Cardinality(EntryBars("short"))' = HeldCount("short")'
       /\ OpenRefs' \cap LedgerRefs' = {}
       /\ Cardinality(OpenRefs') = Len(open_positions')
       /\ Cardinality(LedgerRefs') = Len(closed_positions')
       /\ \A i \in 1..Len(open_positions) :
             LET o == open_positions[i]
                 leaves == \/ o.type = "long" /\ bar'.rsi > p.exit_buy_rsi
                           \/ o.type = "short" /\ bar'.rsi < p.exit_sell_rsi
             IN  IF BarStep /\ leaves
                 THEN /\ o.order_ref \in LedgerRefs'
                      /\ o.order_ref \notin OpenRefs'
                 ELSE \E j \in 1..Len(open_positions') : open_positions'[j] = o]_vars

\* Two longs equal in every field but the order reference were open with a
\* short; the last bar closed the short and left exactly the two longs open.
C19_Witness ==
    /\ nbars = 3
    /\ Len(open_positions) = 3
    /\ open_positions[1].type = "long"
    /\ open_positions[2].type = "long"
    /\ open_positions[3].type = "long"
    /\ open_positions[1].entry_time = open_positions[2].entry_time
    /\ open_positions[1].entry_price = open_positions[2].entry_price
    /\ open_positions[1].entry_rsi = open_positions[2].entry_rsi
    /\ open_positions[1].order_ref # open_positions[2].order_ref
    /\ Len(closed_positions) = 2
    /\ closed_positions[1].type = "short"
    /\ closed_positions[1].exit_time = bar.time
    /\ closed_positions[1].entry_time < bar.time
    /\ n_entries = 5

\* C20 (a neutral bar leaves the state unchanged): a call of next() whose
\* rsi satisfies none of the four threshold conditions (under the defaults,
\* 30 <= rsi <= 70) opens nothing, closes nothing and sends no order: the open
\* set and the ledger are as before, whatever the bar's close.
C20_NeutralBar ==
    [][(/\ BarStep
        /\ ~(bar'.rsi < p.buy_rsi)
        /\ ~(bar'.rsi > p.sell_rsi)
        /\ ~(bar'.rsi > p.exit_buy_rsi)
        /\ ~(bar'.rsi < p.exit_sell_rsi))
          => /\ open_positions' = open_positions
             /\ closed_positions' = closed_positions
             /\ next_ref' = next_ref]_vars

\* Under the defaults a bar with rsi 70 at a new price came after a long was
\* opened and a short closed: both are still where they were.
C20_Witness ==
    /\ nbars = 3
    /\ p.buy_rsi = 30
    /\ p.sell_rsi = 70
    /\ bar.rsi = 70
    /\ bars[2].price # bar.price
    /\ Len(open_positions) = 1
    /\ open_positions[1].type = "long"
    /\ open_positions[1].entry_time = bars[2].time
    /\ Len(closed_positions) = 1
    /\ closed_positions[1].exit_time = bars[2].time
    /\ next_ref = 4

---------------------------------------------------------------------------
\* Properties of the candle download.

\* C17 (None on failure): when a candle request raised during the pagination
\* loop, fetch_instrument_candles returns None.
C17_NoneOnFailure ==
    (fetch_pc = "done" /\ request_failed) => fetch_result.kind = "None"

\* C18 (the pagination loop stops on a stall): once a response's last candle
\* timestamp is not later than the previous response's, the loop has stopped.
C18_StallStopsLoop ==
    (Len(page_last) >= 2
     /\ page_last[Len(page_last)] <= page_last[Len(page_last) - 1])
        => fetch_pc # "loop"

====
